---- MODULE Spec2Model ----
(***************************************************************************)
(* Model of the review-scraping Lambda of src/index.py: lambda_handler,    *)
(* handle_async_scraping, handle_synchronous_scraping and                  *)
(* handle_status_check.  One invocation of lambda_handler is active at a   *)
(* time; its position is pc.  Invocations share no memory: the only thing  *)
(* that survives an invocation is the hand-off payload sent with           *)
(* lambda_client.invoke(InvocationType='Event').                           *)
(*                                                                         *)
(* Python dicts are TLA+ functions over the keys that are present, so that *)
(* d.get(k, default) is Get(d, k, default).  None is "None" where the      *)
(* other values are strings and the empty dict-valued NoneDict where the   *)
(* other values are dicts.                                                 *)
(***************************************************************************)
EXTENDS Integers, Sequences, FiniteSets, TLC

\* Largest number of items the dataset of one actor run holds in the model.
MaxItems == 2

\* The most records of the dataset in the runs that exercise the error
\* summary of the final status write.
MaxErrors == 6

\* The most rows the store returns to one filtered read.
MaxRows == 2

None == "None"
NoneDict == [k \in {} |-> k]
EmptyDict == [k \in {} |-> k]

\* dict.get(key, default)
Get(d, k, default) == IF k \in DOMAIN d THEN d[k] ELSE default

\* A key that is absent, or present with one of the values V.
Opt(k, V) == {EmptyDict} \cup {k :> v : v \in V}

CORS_HEADERS == "CORS_HEADERS"
NoHeaders == "no headers"

(***************************************************************************)
(* Inputs.                                                                 *)
(***************************************************************************)

\* The JSON objects a caller posts as the request body.
Bodies ==
    { pi @@ mr @@ sd @@ mid @@ ri @@ up :
        pi \in Opt("placeIds", {<<>>, <<"P1">>}),
        mr \in Opt("maxReviews", {2}),
        sd \in Opt("reviewsStartDate", {"2024-01-01"}),
        mid \in Opt("scraping_metadata_id", {"A1"}),
        ri \in Opt("returnImmediately", {FALSE}),
        up \in Opt("user_profile_id", {"7", "abc"}) }

\* The text of a request body: not JSON at all, a JSON array, or an object.
BodyTexts ==
    {[kind |-> "invalid", value |-> EmptyDict], [kind |-> "array", value |-> EmptyDict]}
      \cup {[kind |-> "object", value |-> b] : b \in Bodies}

\* json.loads
JsonLoads(text) == [ok |-> text.kind # "invalid", isDict |-> text.kind = "object", value |-> text.value]

\* Events the API front door delivers.
HttpEvents ==
    {("httpMethod" :> "OPTIONS")}
      \cup {("httpMethod" :> "GET") @@ ("path" :> <<"scraping-status", id>>) : id \in {"A1"}}
      \cup {("httpMethod" :> "POST") @@ ("body" :> t) : t \in BodyTexts}

\* Events of a direct invocation that continues an attempt: the
\* isAsyncExecution flag of line 203 with a request body that passes the
\* validation of lines 122-134 and asks for no hand-off, without and with
\* the fields handle_async_scraping reads from the event.
DirectEvents ==
    { ("isAsyncExecution" :> TRUE)
        @@ ("body" :> [kind |-> "object",
                       value |-> ("placeIds" :> <<"P1">>) @@ ("user_profile_id" :> "7")
                                   @@ ("returnImmediately" :> FALSE)])
        @@ p :
        p \in {EmptyDict,
               [scrapingAttemptId |-> "A1", placeIds |-> <<"P1">>, maxReviews |-> 2,
                businessPlaceId |-> "P1"]} }

\* os.getenv of each variable: set (TRUE) or not (FALSE).
Envs == [SUPABASE_URL : BOOLEAN, SUPABASE_KEY : BOOLEAN, APIFY_TOKEN : BOOLEAN]

\* What the installed requests library makes of an unparsable response body:
\*   "modern"            requests >= 2.27, JSONDecodeError is both a
\*                       RequestException and a json.JSONDecodeError
\*   "modern_simplejson" requests >= 2.27 with simplejson, a RequestException
\*                       but not a json.JSONDecodeError
\*   "legacy"            requests < 2.27, a ValueError and no RequestException
Builds == {"modern", "modern_simplejson", "legacy"}

\* Raw records of the dataset.
RawItems ==
    { ("placeId" :> "P1") @@ ("reviewId" :> "R1") }
      \cup { ("placeId" :> "P1") @@ ("error" :> "place_not_found") }
      \cup { ("placeId" :> "P1") @@ ("error" :> "no_reviews") @@ c :
               c \in Opt("categories", {[t |-> "null", v |-> <<>>], [t |-> "list", v |-> <<<<"cafe">>>>]}) }

ItemLists == UNION {[1..n -> RawItems] : n \in 0..MaxItems}

\* The rows of scraping_metadata the store holds, as scraping_status by id,
\* or no knowledge of them: the store is shared with other writers, and a
\* read of an untracked store may return any rows.
Untracked == [tracked |-> FALSE, rows |-> EmptyDict]
Tracked(rows) == [tracked |-> TRUE, rows |-> rows]

\* The most fields of a mapping handed to clean_review_data.
MaxKeys == 2

\* Python values by what clean_review_data and json.dumps can tell apart:
\* the type, what json.dumps(value) does (it returns, or raises TypeError
\* for a content that cannot be encoded, ValueError for a circular
\* reference, RecursionError for a nesting deeper than the interpreter
\* allows), and the content.
PyValues ==
    {[type |-> "NoneType", dumps |-> "ok", v |-> <<"None">>]}
      \cup {[type |-> t, dumps |-> "ok", v |-> <<"x">>] : t \in {"str", "int", "float", "bool"}}
      \cup {[type |-> t, dumps |-> d, v |-> <<"x">>] :
               t \in {"list", "dict"}, d \in {"ok", "TypeError", "ValueError", "RecursionError"}}
      \cup {[type |-> "tuple", dumps |-> "ok", v |-> <<"x">>],
            [type |-> "set", dumps |-> "TypeError", v |-> <<"x">>]}

\* Mappings from field names (the k-th name is k) to values.
PyMappings == UNION {[K -> PyValues] : K \in SUBSET (1..MaxKeys)}

\* str(value)
Str(value) == [type |-> "str", dumps |-> "ok", v |-> <<"str", value.type>> \o value.v]

\* Lines 65-79: what the loop body stores for one value, or the exception
\* that leaves it.
CleanValue(value) ==
    IF value.type = "NoneType" THEN [raised |-> None, value |-> value]
    ELSE IF value.type \in {"str", "int", "float", "bool"} THEN [raised |-> None, value |-> value]
    ELSE IF value.type \in {"list", "dict"}
    THEN IF value.dumps = "ok" THEN [raised |-> None, value |-> value]
         ELSE IF value.dumps \in {"TypeError", "ValueError"}
         THEN [raised |-> None, value |-> Str(value)]
         ELSE [raised |-> value.dumps, value |-> value]
    ELSE [raised |-> None, value |-> Str(value)]

\* Lines 62-80.
clean_review_data(item) ==
    IF \E k \in DOMAIN item : CleanValue(item[k]).raised # None
    THEN [raised |-> (CHOOSE e \in {CleanValue(item[k]).raised : k \in DOMAIN item} : e # None),
          value |-> EmptyDict]
    ELSE [raised |-> None, value |-> [k \in DOMAIN item |-> CleanValue(item[k]).value]]

\* Line 451: json.dumps({'review_data': cleaned_item}).
JsonDumps(mapping) ==
    IF \A k \in DOMAIN mapping : mapping[k].dumps = "ok"
    THEN "ok"
    ELSE CHOOSE e \in {mapping[k].dumps : k \in DOMAIN mapping} : e # "ok"

VARIABLES
    env,                    \* the process environment
    build,                  \* the installed requests library
    pc,                     \* position of the active invocation
    event,                  \* the event of the active invocation
    handoff,                \* hand-off payload in flight, or EmptyDict
    calls,                  \* outbound calls of the active invocation, in order
    response,               \* what the active invocation returned, or EmptyDict
    run,                    \* arguments handle_synchronous_scraping was called with
    items,                  \* items of the dataset
    idx,                    \* number of items the loop has taken
    processed_results,
    total_reviews_scraped,
    scraping_errors,
    business_place_id,
    metadata,               \* the rows of scraping_metadata in the store
    review_item,            \* the mapping handed to clean_review_data
    cleaned_item,           \* what clean_review_data returned or raised
    review_json             \* what json.dumps made of the cleaned item

vars == <<env, build, pc, event, handoff, calls, response, run, items, idx,
          processed_results, total_reviews_scraped, scraping_errors, business_place_id,
          metadata, review_item, cleaned_item, review_json>>

cleanVars == <<review_item, cleaned_item, review_json>>

\* No record is being cleaned.
NotCleaning ==
    /\ review_item = EmptyDict
    /\ cleaned_item = [raised |-> None, value |-> EmptyDict]
    /\ review_json = None

runVars == <<run, items, idx, processed_results, total_reviews_scraped,
             scraping_errors, business_place_id>>

Init ==
    /\ env \in Envs
    /\ build \in Builds
    /\ pc = "idle"
    /\ event = EmptyDict
    /\ handoff = EmptyDict
    /\ calls = <<>>
    /\ response = EmptyDict
    /\ run = EmptyDict
    /\ items = <<>>
    /\ idx = 0
    /\ processed_results = EmptyDict
    /\ total_reviews_scraped = 0
    /\ scraping_errors = <<>>
    /\ business_place_id = None
    /\ metadata = Untracked
    /\ NotCleaning

(***************************************************************************)
(* Outbound calls.                                                         *)
(***************************************************************************)

\* A JSON value that is null or a string.
JsonNull == [t |-> "null", v |-> <<>>]
JsonStr(pieces) == [t |-> "str", v |-> pieces]

\* An outbound call: the request (op, the id of the filter, the
\* scraping_status and error_message of a status write) and the answer (ok
\* is FALSE when the call raised or was answered non-2xx, body is what the
\* response body parses to, rows the rows of a filtered read).
\* A status write that marks the attempt as in progress whatever the status
\* it was given.
PatchMetadata_mut(id, status, message, ok) ==
    [op |-> "patch_metadata", id |-> id, status |-> "in_progress", ok |-> ok,
     message |-> message, body |-> None, rows |-> <<>>]

\* requests.patch(.../scraping_metadata?id=eq.<id>, {scraping_status: ...})
PatchMetadata(id, status, message, ok) ==
    [op |-> "patch_metadata", id |-> id, status |-> status, ok |-> ok,
     message |-> message, body |-> None, rows |-> <<>>]
\* Any other outbound call.
Call(op, ok) ==
    [op |-> op, id |-> None, status |-> None, ok |-> ok,
     message |-> JsonNull, body |-> None, rows |-> <<>>]
\* requests.post(.../rpc/process_google_review): body is "unparsable",
\* "falsy" or "truthy" when the call was answered 2xx.
InsertReview(ok, body) == [Call("insert_review", ok) EXCEPT !.body = body]
\* requests.get(.../scraping_metadata?id=eq.<id>)
GetMetadata(id, ok, rows) == [Call("get_metadata", ok) EXCEPT !.id = id, !.rows = rows]

\* What the calls cs of the program leave in the store m: a PATCH of
\* scraping_metadata?id=eq.<id> that is answered 2xx has updated the rows
\* the filter matches.
RECURSIVE StoreAfter(_, _)
StoreAfter(m, cs) ==
    IF cs = <<>> \/ ~m.tracked THEN m
    ELSE LET c == cs[1]
         IN  StoreAfter(IF c.op = "patch_metadata" /\ c.ok /\ c.id \in DOMAIN m.rows
                        THEN [m EXCEPT !.rows[c.id] = c.status]
                        ELSE m,
                        Tail(cs))

\* The store after the calls a step has added to those of the invocation.
StoreFollows == metadata' = StoreAfter(metadata, SubSeq(calls', Len(calls) + 1, Len(calls')))

Response(code, headers, body) == [statusCode |-> code, headers |-> headers, body |-> body]

\* str(uuid.uuid4()): a token no caller supplies.
Uuid4(n) == IF n = 1 THEN "uuid-1" ELSE "uuid-2"

(***************************************************************************)
(* lambda_handler, up to the point where it returns or enters              *)
(* handle_synchronous_scraping.                                            *)
(***************************************************************************)

\* Lines 147 and 625 with the test of the credential dropped.
SupabaseNotConfigured_mut(e) == ~e.SUPABASE_URL

\* Lines 147 and 625: not supabase_url or not supabase_key.
SupabaseNotConfigured(e) == ~e.SUPABASE_URL \/ ~e.SUPABASE_KEY

\* Rows of scraping_metadata as the store returns them.
MetadataRows == [id : {"A1"}, scraping_status : {"completed", "failed"}]

\* What the store answers to the filtered read of handle_status_check: the
\* read fails (it raises, is answered non-2xx or with an unparsable body),
\* or it returns a list of rows.
ReadOutcomes ==
    {[ok |-> FALSE, rows |-> <<>>]}
      \cup {[ok |-> TRUE, rows |-> r] : r \in UNION {[1..n -> MetadataRows] : n \in 0..MaxRows}}

\* What a GET of scraping_metadata?id=eq.<id> can be answered.
Reads(id) ==
    IF metadata.tracked
    THEN {[ok |-> FALSE, rows |-> <<>>],
          [ok |-> TRUE,
           rows |-> IF id \in DOMAIN metadata.rows
                    THEN <<[id |-> id, scraping_status |-> metadata.rows[id]]>>
                    ELSE <<>>]}
    ELSE ReadOutcomes

\* The answers to the read an invocation with event ev may issue.
EventReads(ev) ==
    IF "path" \in DOMAIN ev
    THEN Reads(ev["path"][Len(ev["path"])])
    ELSE {[ok |-> FALSE, rows |-> <<>>]}

\* Line 655 returning the last row.
StatusRow_mut(data) == data[Len(data)]

\* Line 655: data[0].
StatusRow(data) == data[1]

\* Lines 614-664.
handle_status_check(ev, read) ==
    LET scraping_attempt_id == ev["path"][Len(ev["path"])]
    IN  IF SupabaseNotConfigured(env)
        THEN [response |-> Response(500, CORS_HEADERS,
                                    ("error" :> "Supabase URL or Key not configured for status check")),
              calls |-> <<>>]
        ELSE IF ~read.ok
        THEN [response |-> Response(500, CORS_HEADERS, ("error" :> "Failed to check status")),
              calls |-> <<GetMetadata(scraping_attempt_id, FALSE, <<>>)>>]
        ELSE IF read.rows = <<>>
        THEN [response |-> Response(404, CORS_HEADERS, ("error" :> "Scraping attempt not found")),
              calls |-> <<GetMetadata(scraping_attempt_id, TRUE, read.rows)>>]
        ELSE [response |-> Response(200, CORS_HEADERS, StatusRow(read.rows)),
              calls |-> <<GetMetadata(scraping_attempt_id, TRUE, read.rows)>>]

\* Lines 122-127 alone: user_profile_id is not required.
ValidationError_mut(body) ==
    IF Get(body, "placeIds", <<>>) = <<>> THEN "Place IDs are required"
    ELSE None

\* Lines 122-134: the message of the validation failure, or None.
ValidationError(body) ==
    IF Get(body, "placeIds", <<>>) = <<>> THEN "Place IDs are required"
    ELSE IF Get(body, "user_profile_id", None) = None THEN "user_profile_id is required"
    ELSE None

\* Lines 136-140.
AttemptId(body) ==
    IF Get(body, "scraping_metadata_id", None) = None
    THEN Uuid4(2)
    ELSE body["scraping_metadata_id"]

\* Lines 168-175: the payload handed to the deferred invocation.
AsyncPayload(body) ==
    [isAsyncExecution |-> TRUE,
     scrapingAttemptId |-> AttemptId(body),
     placeIds |-> body["placeIds"],
     maxReviews |-> Get(body, "maxReviews", 5),
     reviewsStartDate |-> Get(body, "reviewsStartDate", None),
     businessPlaceId |-> body["placeIds"][1]]

\* Lines 186-195.
AcceptedResponse(body) ==
    Response(202, CORS_HEADERS,
             [message |-> "Scraping initiated successfully",
              scrapingAttemptId |-> AttemptId(body),
              status |-> "in_progress",
              estimatedDuration |-> "10-15 minutes"])

\* Lines 162-200 with a status write of in_progress after the hand-off.
HandoffCalls_mut(handoffOk) ==
    <<Call("lambda_invoke", handoffOk)>>
      \o (IF handoffOk THEN <<PatchMetadata(None, "in_progress", JsonNull, TRUE)>> ELSE <<>>)

\* Lines 162-200: the calls the triggering invocation makes for the hand-off.
HandoffCalls(handoffOk) == <<Call("lambda_invoke", handoffOk)>>

\* The arguments of handle_synchronous_scraping.
RunArgs(id, place_ids, max_reviews, reviews_start_date, bpid, url, headers, user_profile_id) ==
    [scraping_attempt_id |-> id,
     place_ids |-> place_ids,
     max_reviews |-> max_reviews,
     reviews_start_date |-> reviews_start_date,
     business_place_id |-> bpid,
     supabase_url |-> url,
     supabase_headers |-> headers,
     user_profile_id |-> user_profile_id]

\* Lines 207-210 without the last argument, as in the call of line 276.
SyncArgs_mut(body) ==
    RunArgs(AttemptId(body), body["placeIds"], Get(body, "maxReviews", 5),
            Get(body, "reviewsStartDate", None), body["placeIds"][1],
            env.SUPABASE_URL, TRUE, None)

\* Lines 207-210: the synchronous call of lambda_handler.
SyncArgs(body) ==
    RunArgs(AttemptId(body), body["placeIds"], Get(body, "maxReviews", 5),
            Get(body, "reviewsStartDate", None), body["placeIds"][1],
            env.SUPABASE_URL, TRUE, Get(body, "user_profile_id", None))

\* Lines 256-286: the call handle_async_scraping makes, or its error response.
handle_async_scraping(ev, supabase_url, supabase_headers) ==
    IF ~({"scrapingAttemptId", "placeIds", "maxReviews", "businessPlaceId"} \subseteq DOMAIN ev)
    THEN [response |-> Response(500, NoHeaders, ("error" :> "Async scraping failed")),
          run |-> EmptyDict]
    ELSE IF ~supabase_url \/ ~supabase_headers
    THEN [response |-> Response(500, NoHeaders,
                                ("error" :> "Supabase configuration missing for async task")),
          run |-> EmptyDict]
    ELSE [response |-> EmptyDict,
          run |-> RunArgs(ev["scrapingAttemptId"], ev["placeIds"], ev["maxReviews"],
                          Get(ev, "reviewsStartDate", None), ev["businessPlaceId"],
                          supabase_url, supabase_headers, None)]

\* Lines 212-254 without the test of line 224.
LambdaErrorHandler_mut(scraping_attempt_id, patchOk) ==
    [response |-> Response(500, CORS_HEADERS, ("error" :> "Internal server error")),
     calls |-> <<PatchMetadata(scraping_attempt_id, "failed",
                               JsonStr(<<"AttributeError", ": ",
                                         "'list' object has no attribute 'get'">>),
                               patchOk)>>,
     run |-> EmptyDict,
     sent |-> EmptyDict]

\* Lines 212-254: the handler of an exception that escapes the body of
\* lambda_handler.
LambdaErrorHandler(scraping_attempt_id, patchOk) ==
    [response |-> Response(500, CORS_HEADERS, ("error" :> "Internal server error")),
     calls |-> IF env.SUPABASE_URL /\ env.SUPABASE_KEY
               THEN <<PatchMetadata(scraping_attempt_id, "failed",
                                    JsonStr(<<"AttributeError", ": ",
                                              "'list' object has no attribute 'get'">>),
                                    patchOk)>>
               ELSE <<>>,
     run |-> EmptyDict,
     sent |-> EmptyDict]

Returns(resp) == [response |-> resp, calls |-> <<>>, run |-> EmptyDict, sent |-> EmptyDict]

\* Lines 104-210 for a body that parsed to a dict.
HandleBody(ev, body, handoffOk) ==
    IF ValidationError(body) # None
    THEN Returns(Response(400, CORS_HEADERS, ("error" :> ValidationError(body))))
    ELSE IF SupabaseNotConfigured(env)
    THEN Returns(Response(500, CORS_HEADERS,
                          ("error" :> "Supabase URL or Key not configured in environment variables")))
    ELSE LET return_immediately == Get(body, "returnImmediately", TRUE)
             handoffCalls == IF return_immediately THEN HandoffCalls(handoffOk) ELSE <<>>
         IN  IF return_immediately /\ handoffOk
             THEN [response |-> AcceptedResponse(body),
                   calls |-> handoffCalls,
                   run |-> EmptyDict,
                   sent |-> AsyncPayload(body)]
             ELSE IF Get(ev, "isAsyncExecution", FALSE)
             THEN LET a == handle_async_scraping(ev, env.SUPABASE_URL, TRUE)
                  IN  [response |-> a.response, calls |-> handoffCalls,
                       run |-> a.run, sent |-> EmptyDict]
             ELSE [response |-> EmptyDict,
                   calls |-> handoffCalls,
                   run |-> SyncArgs(body),
                   sent |-> EmptyDict]

\* Lines 89-254.
LambdaResult(ev, handoffOk, patchOk, read) ==
    IF Get(ev, "httpMethod", None) = "OPTIONS"
    THEN Returns(Response(200, CORS_HEADERS, ("message" :> "OK")))
    ELSE IF Get(ev, "httpMethod", None) = "GET"
            /\ \E i \in DOMAIN Get(ev, "path", <<>>) : ev["path"][i] = "scraping-status"
    THEN LET s == handle_status_check(ev, read)
         IN  [response |-> s.response, calls |-> s.calls, run |-> EmptyDict, sent |-> EmptyDict]
    ELSE LET text == Get(ev, "body", [kind |-> "object", value |-> EmptyDict])
             parsed == JsonLoads(text)
         IN  IF ~parsed.ok
             THEN Returns(Response(400, CORS_HEADERS, ("error" :> "Invalid JSON in request body")))
             ELSE IF ~parsed.isDict
             THEN LambdaErrorHandler(Uuid4(1), patchOk)
             ELSE HandleBody(ev, parsed.value, handoffOk)

Invoke(ev, handoffOk, patchOk, read) ==
    LET r == LambdaResult(ev, handoffOk, patchOk, read)
    IN  /\ event' = ev
        /\ calls' = r.calls
        /\ response' = r.response
        /\ handoff' = r.sent
        /\ run' = r.run
        /\ pc' = IF r.run # EmptyDict THEN "run" ELSE "done"
        /\ items' = <<>>
        /\ idx' = 0
        /\ processed_results' = EmptyDict
        /\ total_reviews_scraped' = 0
        /\ scraping_errors' = <<>>
        /\ business_place_id' = IF r.run # EmptyDict THEN r.run.business_place_id ELSE None
        /\ UNCHANGED <<env, build>>
        /\ StoreFollows
        /\ UNCHANGED cleanVars

\* An invocation through the front door, or a direct one.
lambda_handler ==
    /\ pc = "idle"
    /\ handoff = EmptyDict
    /\ \E ev \in HttpEvents \cup DirectEvents, handoffOk \in BOOLEAN, patchOk \in BOOLEAN :
          \E read \in EventReads(ev) : Invoke(ev, handoffOk, patchOk, read)

\* The deferred invocation: lambda_handler receives the hand-off payload as
\* its event.
deferred_lambda_handler ==
    /\ pc = "idle"
    /\ handoff # EmptyDict
    /\ \E handoffOk \in BOOLEAN, patchOk \in BOOLEAN, read \in EventReads(handoff) :
          Invoke(handoff, handoffOk, patchOk, read)

(***************************************************************************)
(* handle_synchronous_scraping.                                            *)
(***************************************************************************)

StoreConfigured == run.supabase_url /\ run.supabase_headers

\* The early failure paths and the top-level handler without their write.
FailedWrite_mut(error_msg, patchOk) == <<>>

\* The best-effort status write of the early failure paths and of the
\* top-level handler: issued only when the store details are present.
FailedWrite(error_msg, patchOk) ==
    IF StoreConfigured
    THEN <<PatchMetadata(run.scraping_attempt_id, "failed", JsonStr(error_msg), patchOk)>>
    ELSE <<>>

\* Lines 586-612: the handler of an exception that escapes the body of
\* handle_synchronous_scraping.
RunErrorHandler(excType, message, patchOk) ==
    [calls |-> FailedWrite(<<excType, ": ", message>>, patchOk),
     response |-> Response(500, CORS_HEADERS, ("error" :> "Scraping failed"))]

\* Lines 292-293 with the test dropped.
ApifyTokenMissing_mut(e) == FALSE

\* Lines 292-293.
ApifyTokenMissing(e) == ~e.APIFY_TOKEN

\* Lines 292-316.
check_apify_token ==
    /\ pc = "run"
    /\ IF ApifyTokenMissing(env)
       THEN \E patchOk \in BOOLEAN :
              /\ calls' = calls \o
                          FailedWrite(<<"Apify token not configured in environment variables">>,
                                      patchOk)
              /\ response' = Response(500, CORS_HEADERS,
                                      ("error" :> "Apify token not configured in environment variables"))
              /\ pc' = "done"
       ELSE /\ pc' = "actor"
            /\ UNCHANGED <<calls, response>>
    /\ UNCHANGED <<env, build, event, handoff>>
    /\ UNCHANGED runVars
    /\ StoreFollows
    /\ UNCHANGED cleanVars

\* Lines 318-370.
call_actor ==
    /\ pc = "actor"
    /\ \E ok \in BOOLEAN, patchOk \in BOOLEAN :
          IF ok
          THEN /\ calls' = Append(calls, Call("actor_call", TRUE))
               /\ processed_results' =
                     [totalItems |-> 0,
                      successfulInserts |-> 0,
                      errors |-> <<>>,
                      businessInfo |-> NoneDict,
                      scrapingAttemptId |-> run.scraping_attempt_id]
               /\ total_reviews_scraped' = 0
               /\ scraping_errors' = <<>>
               /\ pc' = "dataset"
               /\ UNCHANGED response
          ELSE /\ calls' = Append(calls, Call("actor_call", FALSE))
                             \o FailedWrite(<<"Apify scraping failed: ", "str(e)">>, patchOk)
               /\ response' = Response(500, CORS_HEADERS, ("error" :> "Scraping failed"))
               /\ pc' = "done"
               /\ UNCHANGED <<processed_results, total_reviews_scraped, scraping_errors>>
    /\ UNCHANGED <<env, build, event, handoff, run, items, idx, business_place_id>>
    /\ StoreFollows
    /\ UNCHANGED cleanVars

\* Lines 372-398.
iterate_items ==
    /\ pc = "dataset"
    /\ \/ \E its \in ItemLists :
            /\ items' = its
            /\ processed_results' = [processed_results EXCEPT !.totalItems = Len(its)]
            /\ calls' = Append(calls, Call("dataset_items", TRUE))
            /\ pc' = "loop"
            /\ UNCHANGED response
       \/ \E patchOk \in BOOLEAN :
            /\ calls' = Append(calls, Call("dataset_items", FALSE))
                          \o FailedWrite(<<"Failed to retrieve scraped data: ", "str(e)">>, patchOk)
            /\ response' = Response(500, CORS_HEADERS, ("error" :> "Failed to retrieve scraped data"))
            /\ pc' = "done"
            /\ UNCHANGED <<items, processed_results>>
    /\ UNCHANGED <<env, build, event, handoff, run, idx, total_reviews_scraped,
                   scraping_errors, business_place_id>>
    /\ StoreFollows
    /\ UNCHANGED cleanVars

(***************************************************************************)
(* The record loop, lines 401-534.                                         *)
(***************************************************************************)

\* A Python string that is formatted or joined is the sequence of its pieces.
Text(s) == <<s>>

\* sep.join(list) for a list of strings.
RECURSIVE Join(_, _)
Join(sep, list) ==
    IF list = <<>> THEN <<>>
    ELSE IF Len(list) = 1 THEN list[1]
    ELSE list[1] \o <<sep>> \o Join(sep, Tail(list))

\* The ProcessedError dataclass, lines 18-24.
ProcessedError(type, description, place_id, review_id, business_info) ==
    [type |-> type,
     description |-> description,
     place_id |-> place_id,
     review_id |-> review_id,
     business_info |-> business_info]

\* Lines 419-441, with the fields of the dataclass the model's items can
\* tell apart; the caller has checked that categories can be joined.
ProcessedBusinessInfo(item) ==
    [place_id |-> Get(item, "placeId", None),
     title |-> Get(item, "title", None),
     category_name |-> Get(item, "categoryName", None),
     categories |-> Join(",", Get(item, "categories", [t |-> "list", v |-> <<>>]).v),
     address |-> Get(item, "address", None),
     city |-> Get(item, "city", None),
     total_score |-> Get(item, "totalScore", None),
     reviews_count |-> Get(item, "reviewsCount", None),
     url |-> Get(item, "url", None)]

\* What one pass through the loop body did before it ended or raised.
ItemResult(inserted, errs, descriptions, setInfo, info, itemCalls, raised, message) ==
    [inserted |-> inserted,
     errors |-> errs,
     descriptions |-> descriptions,
     setInfo |-> setInfo,
     info |-> info,
     calls |-> itemCalls,
     raised |-> raised,
     excType |-> raised,
     message |-> message]

\* Lines 406-444: a record that carries an error tag.
ErrorItem(item) ==
    LET tag == item["error"]
        description == Text(Get(item, "errorDescription", tag))
        error_info == ProcessedError(tag, description, Get(item, "placeId", None), None, NoneDict)
        snapshot == [title |-> Get(item, "title", None),
                     address |-> Get(item, "address", None),
                     totalScore |-> Get(item, "totalScore", None),
                     reviewsCount |-> Get(item, "reviewsCount", None)]
    IN  IF tag = "no_reviews"
        THEN IF Get(item, "categories", [t |-> "list", v |-> <<>>]).t # "list"
             THEN \* ','.join(None)
                  ItemResult(0, <<>>, <<>>, FALSE, NoneDict, <<>>,
                             "TypeError", "can only join an iterable")
             ELSE ItemResult(0, <<[error_info EXCEPT !.business_info = snapshot]>>,
                             <<description>>, TRUE, ProcessedBusinessInfo(item), <<>>,
                             None, None)
        ELSE ItemResult(0, <<error_info>>, <<description>>, FALSE, NoneDict, <<>>, None, None)

\* What the store answers to the create-review call and to the
\* back-annotation of the created review.
PostOutcomes == {"request_error", "bad_json", "falsy", "truthy_no_id", "truthy_id"}
AnnotateOutcomes == {"get_error", "get_not_ok", "get_bad_json", "get_empty", "patch_ok", "patch_error"}
StoreOutcomes ==
    {<<p, None>> : p \in PostOutcomes \ {"truthy_id"}}
      \cup {<<"truthy_id", a>> : a \in AnnotateOutcomes}

\* Line 502.
DatabaseErrorMsg == <<"Database error: ", "str(db_error)">>

\* Lines 501-515.
DatabaseError(item) ==
    ProcessedError("database_error", DatabaseErrorMsg, None, Get(item, "reviewId", None), NoneDict)

\* Lines 482-499: the back-annotation of a created review.
Annotate(ann) ==
    IF ann = "get_error" \/ ann = "get_not_ok"
    THEN ItemResult(1, <<>>, <<>>, FALSE, NoneDict, <<Call("get_review", FALSE)>>, None, None)
    ELSE IF ann = "get_bad_json"
    THEN IF build = "legacy"
         THEN \* check_review.json() raises a ValueError, which line 498 does not catch
              ItemResult(1, <<>>, <<>>, FALSE, NoneDict, <<Call("get_review", TRUE)>>,
                         "JSONDecodeError", "Expecting value")
         ELSE ItemResult(1, <<>>, <<>>, FALSE, NoneDict, <<Call("get_review", TRUE)>>, None, None)
    ELSE IF ann = "get_empty"
    THEN ItemResult(1, <<>>, <<>>, FALSE, NoneDict, <<Call("get_review", TRUE)>>, None, None)
    ELSE ItemResult(1, <<>>, <<>>, FALSE, NoneDict,
                    <<Call("get_review", TRUE), Call("patch_review", ann = "patch_ok")>>,
                    None, None)

\* Line 469: the number of inserts counted for a parsed response body.
CountInsert(truthy) == IF truthy THEN 1 ELSE 0

\* Lines 446-515: a record without an error tag.
ReviewItem(item, out) ==
    LET post == out[1]
        insert(ok) == <<InsertReview(ok, IF ~ok THEN None
                                         ELSE IF post = "bad_json" THEN "unparsable"
                                         ELSE IF post = "falsy" THEN "falsy"
                                         ELSE "truthy")>>
    IN  IF post = "request_error"
        THEN ItemResult(0, <<DatabaseError(item)>>, <<DatabaseErrorMsg>>, FALSE, NoneDict,
                        insert(FALSE), None, None)
        ELSE IF post = "bad_json"
        THEN IF build = "modern_simplejson"
             THEN \* not a json.JSONDecodeError, but a RequestException
                  ItemResult(0, <<DatabaseError(item)>>, <<DatabaseErrorMsg>>, FALSE, NoneDict,
                             insert(TRUE), None, None)
             ELSE ItemResult(0, <<>>, <<>>, FALSE, NoneDict, insert(TRUE),
                             "Exception", "Invalid JSON response from database")
        ELSE IF post = "truthy_id"
        THEN LET a == Annotate(out[2])
             IN  [a EXCEPT !.inserted = CountInsert(TRUE), !.calls = insert(TRUE) \o a.calls]
        ELSE ItemResult(CountInsert(post # "falsy"), <<>>, <<>>, FALSE, NoneDict,
                        insert(TRUE), None, None)

\* Line 517 as `except requests.exceptions.RequestException`.
ItemHandlerCatches_mut(excType) == excType \in {"RequestException"}

\* Line 517: the exception types `except Exception` catches.
ItemHandlerCatches(excType) == excType \in {"TypeError", "Exception", "JSONDecodeError"}

\* Lines 519-524.
DetailedError(excType, message) ==
    LET error_msg == IF message # "0" THEN message ELSE "Unknown error"
    IN  IF error_msg = "Unknown error" \/ error_msg = ""
        THEN <<"Exception in item processing: ", "traceback">>
        ELSE <<excType, ": ", error_msg>>

\* Lines 401-534: one pass through the loop body, the handler of line 517
\* included.  escaped is TRUE when an exception leaves the loop.
ProcessItem(item, out) ==
    LET r == IF Get(item, "error", None) # None THEN ErrorItem(item) ELSE ReviewItem(item, out)
    IN  IF r.raised = None
        THEN [r EXCEPT !.raised = FALSE]
        ELSE IF ItemHandlerCatches(r.raised)
        THEN [r EXCEPT
                !.errors = Append(@, ProcessedError("processing_error",
                                                    DetailedError(r.raised, r.message),
                                                    None, Get(item, "reviewId", None), NoneDict)),
                !.descriptions = Append(@, DetailedError(r.raised, r.message)),
                !.raised = FALSE]
        ELSE [r EXCEPT !.raised = TRUE, !.excType = r.raised]

Falsy(v) == v \in {None, ""}

\* list.append with the new elements put in front.
ListAppend_mut(list, new) == new \o list

\* Lines 442-443, 513-514 and 531-532: list.append of what the pass through
\* the loop body produced.
ListAppend(list, new) == list \o new

\* One pass of the loop of line 401.
process_item ==
    /\ pc = "loop"
    /\ idx < Len(items)
    /\ LET item == items[idx + 1]
       IN  \E out \in (IF "error" \in DOMAIN item THEN {<<None, None>>} ELSE StoreOutcomes),
              patchOk \in BOOLEAN :
             LET r == ProcessItem(item, out)
                 h == RunErrorHandler(r.excType, r.message, patchOk)
             IN  /\ business_place_id' =
                       IF Falsy(business_place_id) /\ ~Falsy(Get(item, "placeId", None))
                       THEN item["placeId"]
                       ELSE business_place_id
                 /\ processed_results' =
                       [processed_results EXCEPT
                          !.successfulInserts = @ + r.inserted,
                          !.errors = ListAppend(@, r.errors),
                          !.businessInfo = IF r.setInfo THEN r.info ELSE @]
                 /\ total_reviews_scraped' = total_reviews_scraped + r.inserted
                 /\ scraping_errors' = ListAppend(scraping_errors, r.descriptions)
                 /\ idx' = idx + 1
                 /\ IF r.raised
                    THEN /\ calls' = calls \o r.calls \o h.calls
                         /\ response' = h.response
                         /\ pc' = "done"
                    ELSE /\ calls' = calls \o r.calls
                         /\ pc' = "loop"
                         /\ UNCHANGED response
    /\ UNCHANGED <<env, build, event, handoff, run, items>>
    /\ StoreFollows
    /\ UNCHANGED cleanVars

\* Line 537 with the two tests in the other order: failed whenever nothing
\* was inserted.
FinalStatus_mut(errs, scraped) ==
    IF scraped = 0 THEN "failed"
    ELSE IF errs = <<>> THEN "completed"
    ELSE "completed_with_errors"

\* Line 537.
FinalStatus(errs, scraped) ==
    IF errs = <<>> THEN "completed"
    ELSE IF scraped = 0 THEN "failed"
    ELSE "completed_with_errors"

\* Line 548 without the slice.
ErrorSummary_mut(errs) ==
    IF errs # <<>> THEN JsonStr(Join("; ", errs)) ELSE JsonNull

\* Line 548: the error_message of the final status write.
ErrorSummary(errs) ==
    IF errs # <<>>
    THEN JsonStr(Join("; ", SubSeq(errs, 1, IF Len(errs) < 5 THEN Len(errs) ELSE 5)))
    ELSE JsonNull

\* Lines 536-555: the status write that follows the loop.  Its failure is
\* logged.
update_final_status ==
    /\ pc = "loop"
    /\ idx = Len(items)
    /\ \E patchOk \in BOOLEAN :
          calls' = calls \o
                   (IF StoreConfigured
                    THEN <<PatchMetadata(run.scraping_attempt_id,
                                         FinalStatus(scraping_errors, total_reviews_scraped),
                                         ErrorSummary(scraping_errors),
                                         patchOk)>>
                    ELSE <<>>)
    /\ pc' = "business"
    /\ UNCHANGED <<env, build, event, handoff, response>>
    /\ UNCHANGED runVars
    /\ StoreFollows
    /\ UNCHANGED cleanVars

\* Lines 580-584 answering 500 when every record failed.
RunResult_mut(results) ==
    IF results.successfulInserts = 0 /\ results.errors # <<>>
    THEN Response(500, CORS_HEADERS, results)
    ELSE Response(200, CORS_HEADERS, results)

\* Lines 580-584: the response of a run that reached the end of its body.
RunResult(results) == Response(200, CORS_HEADERS, results)

\* The profile identifiers int() accepts.
IntLiterals == {"7"}

\* Lines 557-584, and the handler of line 586 when int() raises.
create_business ==
    /\ pc = "business"
    /\ \E postOk \in BOOLEAN, patchOk \in BOOLEAN :
          IF run.user_profile_id # None /\ run.user_profile_id \notin IntLiterals
          THEN \* ValueError: invalid literal for int()
               LET h == RunErrorHandler("ValueError", "invalid literal for int() with base 10",
                                        patchOk)
               IN  /\ calls' = calls \o h.calls
                   /\ response' = h.response
          ELSE /\ calls' = calls \o
                           (IF StoreConfigured THEN <<Call("post_business", postOk)>> ELSE <<>>)
               /\ response' = RunResult(processed_results)
    /\ pc' = "done"
    /\ UNCHANGED <<env, build, event, handoff>>
    /\ UNCHANGED runVars
    /\ StoreFollows
    /\ UNCHANGED cleanVars

\* The invocation has returned its response; the next one starts from
\* fresh locals.
invocation_ends ==
    /\ pc = "done"
    /\ pc' = "idle"
    /\ event' = EmptyDict
    /\ calls' = <<>>
    /\ response' = EmptyDict
    /\ run' = EmptyDict
    /\ items' = <<>>
    /\ idx' = 0
    /\ processed_results' = EmptyDict
    /\ total_reviews_scraped' = 0
    /\ scraping_errors' = <<>>
    /\ business_place_id' = None
    /\ UNCHANGED <<env, build, handoff>>
    /\ StoreFollows
    /\ UNCHANGED cleanVars

Next ==
    \/ lambda_handler
    \/ deferred_lambda_handler
    \/ check_apify_token
    \/ call_actor
    \/ iterate_items
    \/ process_item
    \/ update_final_status
    \/ create_business
    \/ invocation_ends

Spec == Init /\ [][Next]_vars

(***************************************************************************)
(* The program against a store whose scraping_metadata rows are tracked:   *)
(* no other writer, and the row of attempt A1 either absent or created by  *)
(* a caller before the first invocation.                                   *)
(***************************************************************************)

InitStore ==
    /\ env = [SUPABASE_URL |-> TRUE, SUPABASE_KEY |-> TRUE, APIFY_TOKEN |-> TRUE]
    /\ build = "modern"
    /\ pc = "idle"
    /\ event = EmptyDict
    /\ handoff = EmptyDict
    /\ calls = <<>>
    /\ response = EmptyDict
    /\ run = EmptyDict
    /\ items = <<>>
    /\ idx = 0
    /\ processed_results = EmptyDict
    /\ total_reviews_scraped = 0
    /\ scraping_errors = <<>>
    /\ business_place_id = None
    /\ metadata \in {Tracked(EmptyDict), Tracked("A1" :> "pending")}
    /\ NotCleaning

SpecStore == InitStore /\ [][Next]_vars

(***************************************************************************)
(* Lines 447-453 of the record loop: clean_review_data on a record and the *)
(* serialization of what it returned.                                      *)
(***************************************************************************)

InitClean ==
    /\ env = [SUPABASE_URL |-> TRUE, SUPABASE_KEY |-> TRUE, APIFY_TOKEN |-> TRUE]
    /\ build = "modern"
    /\ pc = "clean"
    /\ event = EmptyDict
    /\ handoff = EmptyDict
    /\ calls = <<>>
    /\ response = EmptyDict
    /\ run = EmptyDict
    /\ items = <<>>
    /\ idx = 0
    /\ processed_results = EmptyDict
    /\ total_reviews_scraped = 0
    /\ scraping_errors = <<>>
    /\ business_place_id = None
    /\ metadata = Untracked
    /\ review_item \in PyMappings
    /\ cleaned_item = [raised |-> None, value |-> EmptyDict]
    /\ review_json = None

\* Line 448.
clean_item ==
    /\ pc = "clean"
    /\ cleaned_item' = clean_review_data(review_item)
    /\ pc' = IF cleaned_item'.raised # None THEN "raised" ELSE "dump"
    /\ UNCHANGED <<env, build, event, handoff, calls, response, metadata, review_item,
                   review_json>>
    /\ UNCHANGED runVars

\* Lines 450-453.
dump_item ==
    /\ pc = "dump"
    /\ review_json' = JsonDumps(cleaned_item.value)
    /\ pc' = "dumped"
    /\ UNCHANGED <<env, build, event, handoff, calls, response, metadata, review_item,
                   cleaned_item>>
    /\ UNCHANGED runVars

NextClean ==
    \/ clean_item
    \/ dump_item

SpecClean == InitClean /\ [][NextClean]_vars

(***************************************************************************)
(* The record loop and what follows it, for datasets of error records      *)
(* long enough to exceed the five descriptions of the error summary.       *)
(***************************************************************************)

\* The request of the runs below.
LoopBody == ("placeIds" :> <<"P1">>) @@ ("user_profile_id" :> "7") @@ ("returnImmediately" :> FALSE)
LoopEvent == ("httpMethod" :> "POST") @@ ("body" :> [kind |-> "object", value |-> LoopBody])

\* Lines 401-403: the state of a run of that request at the head of the
\* record loop, the dataset its retrieved.
LoopEntry(its) ==
    /\ env = [SUPABASE_URL |-> TRUE, SUPABASE_KEY |-> TRUE, APIFY_TOKEN |-> TRUE]
    /\ build = "modern"
    /\ pc = "loop"
    /\ event = LoopEvent
    /\ handoff = EmptyDict
    /\ calls = <<Call("actor_call", TRUE), Call("dataset_items", TRUE)>>
    /\ response = EmptyDict
    /\ run = SyncArgs(LoopBody)
    /\ items = its
    /\ idx = 0
    /\ processed_results =
          [totalItems |-> Len(its),
           successfulInserts |-> 0,
           errors |-> <<>>,
           businessInfo |-> NoneDict,
           scrapingAttemptId |-> AttemptId(LoopBody)]
    /\ total_reviews_scraped = 0
    /\ scraping_errors = <<>>
    /\ business_place_id = "P1"
    /\ metadata = Untracked
    /\ NotCleaning

\* Error records that carry a description.
DescribedItems ==
    { ("placeId" :> "P1") @@ ("error" :> "place_not_found") @@ ("errorDescription" :> d) :
        d \in {"d1", "d2"} }

InitSummary == \E its \in UNION {[1..n -> DescribedItems] : n \in 0..MaxErrors} : LoopEntry(its)

NextSummary ==
    \/ process_item
    \/ update_final_status
    \/ create_business

SpecSummary == InitSummary /\ [][NextSummary]_vars

(***************************************************************************)
(* Properties.                                                             *)
(***************************************************************************)

\* The invocation has returned.
Returned == pc = "done"

\* The positions of the status writes among the calls of the invocation.
StatusWrites == {i \in DOMAIN calls : calls[i].op = "patch_metadata"}

\* The dataset has been retrieved.
ItemsRetrieved == \E i \in DOMAIN calls : calls[i] = Call("dataset_items", TRUE)

\* The run has returned the result payload.
ReturnedResult == Returned /\ run # EmptyDict /\ response.statusCode = 200

\* C1: a run that retrieved N raw records returns a result with
\* successfulInserts + length(errors) = N = totalItems.
C1_EveryRecordCountedOnce ==
    ReturnedResult =>
        /\ response.body.totalItems = Len(items)
        /\ response.body.successfulInserts + Len(response.body.errors) = Len(items)

StatusAgrees(status, result) ==
    /\ status \in {"failed", "completed_with_errors", "completed"}
    /\ status = "failed" <=> (result.successfulInserts = 0 /\ result.errors # <<>>)
    /\ status = "completed_with_errors" <=> (result.successfulInserts > 0 /\ result.errors # <<>>)
    /\ status = "completed" <=> result.errors = <<>>

\* C2: the status written after the record loop is failed iff nothing was
\* inserted and there are errors, completed_with_errors iff something was
\* inserted and there are errors, completed iff there are no errors, for the
\* counts of the returned result payload.
C2_FinalStatusAgreesWithResult ==
    /\ pc = "business" =>
          /\ StatusWrites # {}
          /\ \A i \in StatusWrites : StatusAgrees(calls[i].status, processed_results)
    /\ ReturnedResult =>
          /\ response.body = processed_results
          /\ StatusWrites # {}
          /\ \A i \in StatusWrites : StatusAgrees(calls[i].status, response.body)

C2_Witness ==
    /\ ReturnedResult
    /\ \E i \in StatusWrites : calls[i].status = "completed_with_errors"
    /\ response.body.successfulInserts > 0

\* C3: the deferred invocation of lambda_handler with the hand-off payload
\* executes run for the handed-off attempt and place identifiers, and the
\* attempt receives a terminal status write.
C3_DeferredInvocationRuns ==
    (Returned /\ Get(event, "isAsyncExecution", FALSE) /\ "body" \notin DOMAIN event) =>
        /\ run # EmptyDict
        /\ run.scraping_attempt_id = event["scrapingAttemptId"]
        /\ run.place_ids = event["placeIds"]
        /\ \E i \in StatusWrites :
              /\ calls[i].id = event["scrapingAttemptId"]
              /\ calls[i].status \in {"failed", "completed_with_errors", "completed"}

\* The request body of a submit event, as the caller wrote it.
SubmitBody == event["body"].value
IsSubmit ==
    /\ Get(event, "httpMethod", None) = "POST"
    /\ "body" \in DOMAIN event
    /\ event["body"].kind = "object"

\* The attempt identifier a submit request asks for.
RequestedAttemptId ==
    IF "scraping_metadata_id" \in DOMAIN SubmitBody
    THEN SubmitBody["scraping_metadata_id"]
    ELSE "uuid-2"

HandoffFailed == calls # <<>> /\ calls[1] = Call("lambda_invoke", FALSE)
HandoffSucceeded == \E i \in DOMAIN calls : calls[i] = Call("lambda_invoke", TRUE)

\* C4: when the hand-off fails, lambda_handler runs
\* handle_synchronous_scraping in the same call with the attempt identifier,
\* place identifiers, maxReviews, reviewsStartDate and user profile id of the
\* request, and returns that run's result, never 202.
C4_HandoffFailureRunsSynchronously ==
    (IsSubmit /\ HandoffFailed) =>
        /\ run # EmptyDict
        /\ run.scraping_attempt_id = RequestedAttemptId
        /\ run.place_ids = SubmitBody["placeIds"]
        /\ run.max_reviews = (IF "maxReviews" \in DOMAIN SubmitBody THEN SubmitBody["maxReviews"] ELSE 5)
        /\ run.reviews_start_date =
              (IF "reviewsStartDate" \in DOMAIN SubmitBody THEN SubmitBody["reviewsStartDate"] ELSE None)
        /\ run.user_profile_id = SubmitBody["user_profile_id"]
        /\ handoff = EmptyDict
        /\ Returned =>
              /\ response.statusCode \in {200, 500}
              /\ response.statusCode = 200 =>
                    response.body.scrapingAttemptId = RequestedAttemptId

C4_Witness ==
    /\ IsSubmit
    /\ HandoffFailed
    /\ ReturnedResult
    /\ "maxReviews" \in DOMAIN SubmitBody
    /\ "reviewsStartDate" \in DOMAIN SubmitBody

\* C5: when the hand-off succeeds, the triggering call returns 202 with the
\* attempt identifier and the hand-off is its only outbound call: no job
\* submission, no review insert, no status write.
C5_AcceptedWithoutOtherEffects ==
    (HandoffSucceeded \/ (Returned /\ response.statusCode = 202)) =>
        /\ Returned
        /\ response.statusCode = 202
        /\ response.body.scrapingAttemptId = RequestedAttemptId
        /\ calls = <<Call("lambda_invoke", TRUE)>>
        /\ run = EmptyDict
        /\ handoff # EmptyDict
        /\ handoff["scrapingAttemptId"] = RequestedAttemptId

C5_Witness ==
    /\ IsSubmit
    /\ HandoffSucceeded
    /\ Returned
    /\ response.statusCode = 202

\* The parsed body of a request that is neither OPTIONS nor a status check.
InvalidSubmit ==
    /\ IsSubmit
    /\ \/ "placeIds" \notin DOMAIN SubmitBody
       \/ SubmitBody["placeIds"] = <<>>
       \/ "user_profile_id" \notin DOMAIN SubmitBody

\* C6: a submit request without placeIds, with empty placeIds or without
\* user_profile_id returns 400 before any outbound call.
C6_ValidationFailureHasNoEffects ==
    InvalidSubmit =>
        /\ Returned
        /\ response.statusCode = 400
        /\ calls = <<>>
        /\ run = EmptyDict
        /\ handoff = EmptyDict

C6_Witness ==
    /\ InvalidSubmit
    /\ "placeIds" \in DOMAIN SubmitBody
    /\ SubmitBody["placeIds"] # <<>>
    /\ env.SUPABASE_URL
    /\ env.SUPABASE_KEY
    /\ response.statusCode = 400

JobCalls == {"actor_call", "dataset_items", "insert_review", "get_review", "patch_review",
             "post_business"}

\* C7: a run that starts without job-engine credential writes status failed
\* to the attempt's metadata, returns an error result and attempts no job
\* submission, result fetch or review insert.
C7_MissingCredentialFailsWithoutJob ==
    (run # EmptyDict /\ ~env.APIFY_TOKEN) =>
        /\ pc \in {"run", "done"}
        /\ \A i \in DOMAIN calls : calls[i].op \notin JobCalls
        /\ Returned =>
              /\ response.statusCode = 500
              /\ Cardinality(StatusWrites) = 1
              /\ \A i \in StatusWrites :
                    /\ calls[i].status = "failed"
                    /\ calls[i].id = run.scraping_attempt_id

C7_Witness ==
    /\ run # EmptyDict
    /\ ~env.APIFY_TOKEN
    /\ Returned
    /\ \E i \in StatusWrites : calls[i].ok

\* C8: a failure while processing record k does not stop the loop: every
\* pass of the loop body returns to the loop head, and the final status
\* write is issued only after all N records were taken.
C8_FailureDoesNotStopLoop ==
    /\ [](ItemsRetrieved =>
            /\ pc \in {"business", "done"} => idx = Len(items)
            /\ pc \in {"business", "done"} =>
                  \E i \in StatusWrites :
                      calls[i].status = FinalStatus(scraping_errors, total_reviews_scraped)
            /\ Len(scraping_errors) = Len(processed_results.errors))
    /\ [][(pc = "loop" /\ idx < Len(items)) => (pc' = "loop" /\ idx' = idx + 1)]_vars

C8_Witness ==
    /\ pc = "done"
    /\ Len(items) = 2
    /\ Get(items[1], "error", None) = "no_reviews"
    /\ Get(items[1], "categories", [t |-> "list", v |-> <<>>]).t = "null"
    /\ "error" \notin DOMAIN items[2]
    /\ Len(processed_results.errors) = 1
    /\ processed_results.errors[1].type = "processing_error"
    /\ processed_results.successfulInserts = 1
    /\ response.statusCode = 200

NoReviewsTaken == {k \in 1..idx : Get(items[k], "error", None) = "no_reviews"}

\* C9: every record tagged no_reviews yields a ProcessedError with that tag
\* and a populated businessInfo, whatever its other fields; a record with
\* another tag yields only a ProcessedError and leaves businessInfo alone.
C9_NoReviewsYieldsErrorAndBusinessInfo ==
    ItemsRetrieved =>
        /\ Cardinality({i \in DOMAIN processed_results.errors :
                           processed_results.errors[i].type = "no_reviews"})
             = Cardinality(NoReviewsTaken)
        /\ NoReviewsTaken # {} <=> processed_results.businessInfo # NoneDict

\* C10: a run issues at most one status write to scraping_metadata, and a
\* terminal status written after the record loop is not overwritten by a
\* later step of the same run.
C10_OneStatusWritePerRun ==
    Cardinality(StatusWrites) <= 1

\* The create-review calls that were answered 2xx with a truthy parsed body.
CountedInserts ==
    {i \in DOMAIN calls : calls[i].op = "insert_review" /\ calls[i].body = "truthy"}

\* C11: whatever way the lookup or the patch of the back-annotation fails, a
\* record whose create-review call succeeded stays counted as exactly one
\* successful insert and no ProcessedError is appended for it.
C11_AnnotationFailureLeavesRecordCounted ==
    ItemsRetrieved =>
        /\ processed_results.successfulInserts = Cardinality(CountedInserts)
        /\ Len(processed_results.errors) + Cardinality(CountedInserts) <= idx

\* C12: for every user profile id that passed validation and every outcome
\* of the create-business step, a run that finished its record loop returns
\* the 200 result payload and records no failed status for that step.
C12_BusinessCreationBestEffort ==
    (Returned /\ ItemsRetrieved) =>
        /\ response.statusCode = 200
        /\ response.body = processed_results
        /\ Cardinality(StatusWrites) = 1

\* The status write that follows the record loop.
FinalWrite == CHOOSE i \in StatusWrites : \A j \in StatusWrites : i <= j

\* C13: when the status write that follows the record loop fails, the run
\* still attempts the creation of the business record and returns the 200
\* result payload.
C13_FinalWriteFailureOnlyLogged ==
    (Returned /\ ItemsRetrieved /\ ~calls[FinalWrite].ok) =>
        /\ \E i \in DOMAIN calls : calls[i].op = "post_business"
        /\ response.statusCode = 200
        /\ response.body = processed_results


\* The body of the request is JSON and no object: body.get of line 109
\* raises AttributeError.
BodyIsArray ==
    /\ Get(event, "httpMethod", None) = "POST"
    /\ "body" \in DOMAIN event
    /\ event["body"].kind = "array"

\* int(user_profile_id) of line 562 has raised ValueError.
IntRaised ==
    /\ Returned
    /\ ItemsRetrieved
    /\ run.user_profile_id \notin IntLiterals \cup {None}

\* C14: an exception that escapes the body of lambda_handler or of
\* handle_synchronous_scraping is answered by the top-level handler with one
\* failed status write, attempted only when the store URL and credential are
\* available, and with a 500 response, whether or not that write succeeds.
C14_EscapedExceptionHandled ==
    /\ BodyIsArray =>
          /\ Returned
          /\ run = EmptyDict
          /\ response = Response(500, CORS_HEADERS, ("error" :> "Internal server error"))
          /\ IF env.SUPABASE_URL /\ env.SUPABASE_KEY
             THEN /\ Len(calls) = 1
                  /\ calls[1].op = "patch_metadata"
                  /\ calls[1].status = "failed"
                  /\ calls[1].id = Uuid4(1)
             ELSE calls = <<>>
    /\ IntRaised =>
          /\ response = Response(500, CORS_HEADERS, ("error" :> "Scraping failed"))
          /\ Cardinality({i \in StatusWrites : i > FinalWrite}) = 1
          /\ calls[Len(calls)].op = "patch_metadata"
          /\ calls[Len(calls)].status = "failed"
          /\ calls[Len(calls)].id = run.scraping_attempt_id
          /\ calls[Len(calls)].message.v[1] = "ValueError"

C14_Witness ==
    /\ BodyIsArray
    /\ calls # <<>>
    /\ ~calls[1].ok
    /\ response.statusCode = 500

JobFailed ==
    \E i \in DOMAIN calls :
        calls[i] \in {Call("actor_call", FALSE), Call("dataset_items", FALSE)}

\* C15: when the submission of the job or the retrieval of its results
\* fails, the run writes status failed with the underlying error to the
\* attempt's metadata, returns 500 and processes no record: no review
\* insert, no final-status write, no business creation.
C15_JobFailureStopsRun ==
    JobFailed =>
        /\ Returned
        /\ response.statusCode = 500
        /\ response.body \in {("error" :> "Scraping failed"),
                              ("error" :> "Failed to retrieve scraped data")}
        /\ Cardinality(StatusWrites) = 1
        /\ calls[Len(calls)].op = "patch_metadata"
        /\ calls[Len(calls)].status = "failed"
        /\ calls[Len(calls)].id = run.scraping_attempt_id
        /\ calls[Len(calls)].message =
              JsonStr(<<IF calls[Len(calls) - 1].op = "actor_call"
                        THEN "Apify scraping failed: "
                        ELSE "Failed to retrieve scraped data: ",
                        "str(e)">>)
        /\ \A i \in DOMAIN calls :
              calls[i].op \notin {"insert_review", "get_review", "patch_review", "post_business"}
        /\ items = <<>>
        /\ idx = 0

C15_Witness ==
    /\ Returned
    /\ Len(calls) = 3
    /\ calls[1] = Call("actor_call", TRUE)
    /\ calls[2] = Call("dataset_items", FALSE)
    /\ calls[3].status = "failed"

IsStatusCheck == Get(event, "httpMethod", None) = "GET"

\* The first row the read of the status check returned.
StatusRowRead == calls[1].rows[1]

\* C16: the only call of a status check is one read of the metadata
\* filtered by the attempt id of the path, issued whenever the store is
\* configured, and it makes no write: it returns 500 when the read fails,
\* 404 when the read returns no row, otherwise 200 with the first returned
\* row as it was read.
C16_StatusCheckReadsOnce ==
    IsStatusCheck =>
        /\ Returned
        /\ run = EmptyDict
        /\ handoff = EmptyDict
        /\ Len(calls) <= 1
        /\ (env.SUPABASE_URL /\ env.SUPABASE_KEY) => Len(calls) = 1
        /\ \A i \in DOMAIN calls :
              /\ calls[i].op = "get_metadata"
              /\ calls[i].id = event["path"][Len(event["path"])]
        /\ response.statusCode =
              (IF calls = <<>> \/ ~calls[1].ok THEN 500
               ELSE IF calls[1].rows = <<>> THEN 404
               ELSE 200)
        /\ response.statusCode = 200 => response.body = StatusRowRead

C16_Witness ==
    /\ IsStatusCheck
    /\ calls # <<>>
    /\ Len(calls[1].rows) = 2
    /\ calls[1].rows[1] # calls[1].rows[2]
    /\ response.statusCode = 200
    /\ response.body = calls[1].rows[1]


\* C17: every response of lambda_handler carries the CORS header set, and an
\* OPTIONS request returns 200 without any store, hand-off or job call.
C17_EveryResponseCarriesCors ==
    /\ Returned => response.headers = CORS_HEADERS
    /\ Get(event, "httpMethod", None) = "OPTIONS" =>
          /\ Returned
          /\ response.statusCode = 200
          /\ calls = <<>>
          /\ run = EmptyDict
          /\ handoff = EmptyDict

StoreUnconfigured == ~env.SUPABASE_URL \/ ~env.SUPABASE_KEY

ConfigurationError ==
    {Response(500, CORS_HEADERS,
              ("error" :> "Supabase URL or Key not configured in environment variables")),
     Response(500, CORS_HEADERS,
              ("error" :> "Supabase URL or Key not configured for status check"))}

\* C18 as stated: without store endpoint or credential, every submit and
\* every status check fails with a 500 configuration error before any
\* network call.
C18_UnconfiguredStoreAlways500 ==
    (StoreUnconfigured /\ (IsSubmit \/ IsStatusCheck)) =>
        /\ Returned
        /\ response \in ConfigurationError
        /\ calls = <<>>
        /\ run = EmptyDict
        /\ handoff = EmptyDict

\* C18 amended: without store endpoint or credential no invocation makes a
\* network call; a status check and a submit that passes validation fail
\* with a 500 configuration error, a submit that fails validation with 400.
C18_UnconfiguredStoreFailsEarly ==
    StoreUnconfigured =>
        /\ calls = <<>>
        /\ run = EmptyDict
        /\ handoff = EmptyDict
        /\ ((IsSubmit /\ ~InvalidSubmit) \/ IsStatusCheck) =>
              /\ Returned
              /\ response \in ConfigurationError
        /\ InvalidSubmit =>
              /\ Returned
              /\ response.statusCode = 400

C18_Witness ==
    /\ env.SUPABASE_URL
    /\ ~env.SUPABASE_KEY
    /\ IsSubmit
    /\ ~InvalidSubmit
    /\ "returnImmediately" \notin DOMAIN SubmitBody
    /\ response.statusCode = 500


\* The create-review calls that were answered 2xx with a parsable body.
ParsedInserts ==
    {i \in DOMAIN calls :
        calls[i].op = "insert_review" /\ calls[i].ok /\ calls[i].body \in {"falsy", "truthy"}}

\* C19: every create-review call that is answered 2xx with a parsable body,
\* whatever the value of that body, increments the success counter by
\* exactly one.
C19_ParsedInsertCounted ==
    ItemsRetrieved => processed_results.successfulInserts = Cardinality(ParsedInserts)

\* C20: once businessInfo is set, no later record of the attempt assigns it
\* again.
C20_BusinessInfoAssignedOnce ==
    [][(pc = "loop" /\ pc' = "loop" /\ processed_results.businessInfo # NoneDict)
          => processed_results'.businessInfo = processed_results.businessInfo]_vars


\* The ProcessedError e is one the record item can produce.
ErrorOf(e, item) ==
    IF "error" \in DOMAIN item
    THEN /\ e.type \in {item["error"], "processing_error"}
         /\ e.type = item["error"] => e.place_id = Get(item, "placeId", None)
    ELSE /\ e.type \in {"processing_error", "database_error"}
         /\ e.review_id = Get(item, "reviewId", None)

\* C21: the errors of the result are in the order of the records that
\* produced them: they can be assigned to records taken so far by a strictly
\* increasing map, and the error descriptions collected for the metadata
\* summary are in the same order.
C21_ErrorsInRecordOrder ==
    ItemsRetrieved =>
        /\ Len(scraping_errors) = Len(processed_results.errors)
        /\ \A i \in DOMAIN scraping_errors :
              scraping_errors[i] = processed_results.errors[i].description
        /\ \E f \in [DOMAIN processed_results.errors -> 1..idx] :
              /\ \A i, j \in DOMAIN f : i < j => f[i] < f[j]
              /\ \A i \in DOMAIN f : ErrorOf(processed_results.errors[i], items[f[i]])

C21_Witness ==
    /\ ReturnedResult
    /\ Len(items) = 2
    /\ Get(items[1], "error", None) = "place_not_found"
    /\ "error" \notin DOMAIN items[2]
    /\ Len(response.body.errors) = 2
    /\ response.body.errors[1].type = "place_not_found"
    /\ response.body.errors[2].type = "database_error"


\* C22: the error_message of the final status write is null when no error
\* occurred, and otherwise the descriptions of the first min(5, E) errors in
\* order, separated by "; ", and nothing of the errors after the fifth.
C22_SummaryIsFirstFive ==
    (pc \in {"business", "done"} /\ StatusWrites # {}) =>
        LET m == calls[FinalWrite].message
            E == Len(processed_results.errors)
            n == IF E < 5 THEN E ELSE 5
        IN  /\ E = Len(items)
            /\ IF E = 0
               THEN m = JsonNull
               ELSE /\ m.t = "str"
                    /\ Len(m.v) = 2 * n - 1
                    /\ \A k \in 1..n : m.v[2 * k - 1] = items[k]["errorDescription"]
                    /\ \A k \in 1..(n - 1) : m.v[2 * k] = "; "

C22_Witness ==
    /\ pc = "done"
    /\ Len(items) = 6
    /\ items[5]["errorDescription"] = "d1"
    /\ items[6]["errorDescription"] = "d2"
    /\ calls[FinalWrite].message.v[9] = "d1"
    /\ Len(calls[FinalWrite].message.v) = 9


\* The status writes of the invocation that the store answered 2xx.
AnsweredWrites == {i \in StatusWrites : calls[i].ok}

\* C23: once a run has issued a status write that the store answered 2xx,
\* the store holds a metadata row for the attempt identifier of that write,
\* with the status of the latest such write, whether or not a caller had
\* created the row; a status check that reads the store returns that row.
C23_FirstWriteCreatesMetadata ==
    metadata.tracked =>
        /\ run # EmptyDict => \A i \in AnsweredWrites :
              /\ calls[i].id \in DOMAIN metadata.rows
              /\ (\A j \in AnsweredWrites : j <= i) => metadata.rows[calls[i].id] = calls[i].status
        /\ (IsStatusCheck /\ calls # <<>> /\ calls[1].ok) =>
              /\ calls[1].id \in DOMAIN metadata.rows <=> response.statusCode = 200
              /\ response.statusCode = 200 =>
                    response.body.scraping_status = metadata.rows[calls[1].id]


\* The value is null, a primitive or a nested value json.dumps accepts.
KeptAsIs(value) ==
    \/ value.type \in {"NoneType", "str", "int", "float", "bool"}
    \/ value.type \in {"list", "dict"} /\ value.dumps = "ok"

\* C24: clean_review_data returns, for every mapping, a mapping with the
\* same keys in which null, primitive and serializable nested values are
\* unchanged and every other value is its string form; cleaning the result
\* again returns it unchanged, and json.dumps accepts it.
C24_CleanIsTotalAndIdempotent ==
    pc \in {"raised", "dump", "dumped"} =>
        /\ cleaned_item.raised = None
        /\ DOMAIN cleaned_item.value = DOMAIN review_item
        /\ \A k \in DOMAIN review_item :
              IF KeptAsIs(review_item[k])
              THEN cleaned_item.value[k] = review_item[k]
              ELSE /\ cleaned_item.value[k].type = "str"
                   /\ cleaned_item.value[k].v = <<"str", review_item[k].type>> \o review_item[k].v
        /\ clean_review_data(cleaned_item.value) = cleaned_item
        /\ pc = "dumped" => review_json = "ok"


\* C25: every status written to scraping_metadata is completed,
\* completed_with_errors or failed, and the invocation that answers 202 with
\* status in_progress has made no metadata write.
C25_NeverWritesInProgress ==
    /\ \A i \in StatusWrites :
          calls[i].status \in {"completed", "completed_with_errors", "failed"}
    /\ (Returned /\ response.statusCode = 202) =>
          /\ response.body.status = "in_progress"
          /\ StatusWrites = {}

C25_Witness ==
    /\ Returned
    /\ response.statusCode = 202
    /\ response.body.status = "in_progress"
    /\ response.body.scrapingAttemptId = "A1"
    /\ StatusWrites = {}
    /\ handoff # EmptyDict


\* C26: a run returns 200 with the result payload whenever it reaches the
\* end of its body, whatever the final status, and 500 exactly when the
\* job-engine credential is missing, the job submission or the retrieval of
\* its results failed, or an exception escaped (int() of the profile id).
C26_OutcomeIgnoresFinalStatus ==
    (run # EmptyDict /\ Returned) =>
        /\ response.statusCode \in {200, 500}
        /\ response.statusCode = 500 <=>
              \/ ~env.APIFY_TOKEN
              \/ JobFailed
              \/ run.user_profile_id \notin IntLiterals \cup {None}
        /\ response.statusCode = 200 =>
              /\ ItemsRetrieved
              /\ idx = Len(items)
              /\ response.body = processed_results

C26_Witness ==
    /\ run # EmptyDict
    /\ Returned
    /\ response.statusCode = 200
    /\ Len(items) = 2
    /\ response.body.successfulInserts = 0
    /\ Len(response.body.errors) = 2
    /\ calls[FinalWrite].status = "failed"
    /\ calls[FinalWrite].ok

====
